---- MODULE Spec2Model ----
(***************************************************************************)
(* Model of PIC16F1704_APW12_1.2_V71_skeleton.c: the configuration bits,   *)
(* the ten empty functions func_0674 .. func_0118, and main, which writes  *)
(* OSCCON, ANSELA and ANSELC and then spins in an empty while(1) loop.     *)
(*                                                                         *)
(* Spec      one execution of main from reset, one action per statement.   *)
(* FairSpec  Spec with the processor always executing its next statement.  *)
(* SpecStubs each of the ten functions called from an arbitrary state.     *)
(***************************************************************************)
EXTENDS Naturals, Sequences, FiniteSets

VARIABLES
    pc,          \* the statement main is at: "l80", "l81", "l82" or "l85"
    OSCCON,      \* the three special function registers main writes
    ANSELA,
    ANSELC,
    wlog,        \* history: the registers written since power-on, in order
    iters,       \* history: iterations of the main loop made (saturating)
    ncalls,      \* history: invocations of the ten functions so far
    lastCalled,  \* history: the function invoked last, "none" before any
    resetCause,  \* "POR" after power-on, "WDT" after a watchdog time-out
    rst          \* history: <<OSCCON, ANSELA, ANSELC>> as the last reset left them

vars == <<pc, OSCCON, ANSELA, ANSELC, wlog, iters, ncalls, lastCalled, resetCause, rst>>

----------------------------------------------------------------------------
(* Bounds of the model *)

\* the main loop's iterations are counted up to MaxIters
MaxIters == 3
\* the write log keeps at most MaxLog entries
MaxLog == 6
\* SpecStubs makes at most MaxCalls calls
MaxCalls == 3

\* the values a register may hold at reset: a sample of the 8-bit values
\* (0x00, 0x17, 0x38, 0x3F, 0x70, 0xFF)
ByteSamples == {0, 23, 56, 63, 112, 255}

----------------------------------------------------------------------------
(* Configuration bits and literals of the source *)

\* the watchdog enabled
WDTE_on == "ON"

\* #pragma config WDTE = OFF
WDTE == "OFF"

\* OSCCON = 0x70;
OSCCON_INIT == 112
\* ANSELA = 0x00;
ANSELA_INIT == 0
\* ANSELC = 0x00;
ANSELC_INIT == 0

\* the statements of main
MainLabels == {"l80", "l81", "l82", "l85"}

\* the ten functions, in source order
Stubs == {"func_0674", "func_0193", "func_0124", "func_0380", "func_05EE",
          "func_0264", "func_0151", "func_01CA", "func_0746", "func_0118"}

\* the order main's source gives the three writes
InitOrder == <<"OSCCON", "ANSELA", "ANSELC">>

----------------------------------------------------------------------------
(* The state a function runs on: the registers and the call history *)

Machine == [OSCCON |-> OSCCON, ANSELA |-> ANSELA, ANSELC |-> ANSELC,
            ncalls |-> ncalls, lastCalled |-> lastCalled]

\* a function with a body that clears ANSELA and calls func_0118
func_05EE_busy(s) == [s EXCEPT !.ANSELA = 0, !.ncalls = @ + 1, !.lastCalled = "func_0118"]

\* each body holds two comments and no statement
func_0674(s) == s
func_0193(s) == s
func_0124(s) == s
func_0380(s) == s
func_05EE(s) == s
func_0264(s) == s
func_0151(s) == s
func_01CA(s) == s
func_0746(s) == s
func_0118(s) == s

Body(f, s) ==
    CASE f = "func_0674" -> func_0674(s)
      [] f = "func_0193" -> func_0193(s)
      [] f = "func_0124" -> func_0124(s)
      [] f = "func_0380" -> func_0380(s)
      [] f = "func_05EE" -> func_05EE(s)
      [] f = "func_0264" -> func_0264(s)
      [] f = "func_0151" -> func_0151(s)
      [] f = "func_01CA" -> func_01CA(s)
      [] f = "func_0746" -> func_0746(s)
      [] f = "func_0118" -> func_0118(s)

\* a call: the invocation is recorded, the body runs, the function returns
Call(f, s) == Body(f, [s EXCEPT !.ncalls = @ + 1, !.lastCalled = f])

RECURSIVE RunCalls(_, _)
RunCalls(calls, s) ==
    IF calls = <<>> THEN s ELSE RunCalls(Tail(calls), Call(Head(calls), s))

\* a loop body that services func_0674
MainLoopCalls_one == <<"func_0674">>

\* the calls the body of while(1) makes, in order: the body is a comment
MainLoopCalls == <<>>

\* the write log, extended by one register
Logged(r) == IF Len(wlog) < MaxLog THEN Append(wlog, r) ELSE wlog

\* how often register r is in the write log
Writes(r) == Cardinality({i \in DOMAIN wlog : wlog[i] = r})

----------------------------------------------------------------------------
(* main, one action per statement *)

\* reset: main is at its first statement, the registers hold any value
Init ==
    /\ pc = "l80"
    /\ OSCCON \in ByteSamples
    /\ ANSELA \in ByteSamples
    /\ ANSELC \in ByteSamples
    /\ rst = <<OSCCON, ANSELA, ANSELC>>
    /\ wlog = <<>>
    /\ iters = 0
    /\ ncalls = 0
    /\ lastCalled = "none"
    /\ resetCause = "POR"

\* the literal typed without its 0x prefix
main_l80_hex ==
    /\ pc = "l80"
    /\ OSCCON' = 70
    /\ wlog' = Logged("OSCCON")
    /\ pc' = "l81"
    /\ UNCHANGED <<ANSELA, ANSELC, iters, ncalls, lastCalled, resetCause, rst>>

\* OSCCON = 0x70;
main_l80 ==
    /\ pc = "l80"
    /\ OSCCON' = OSCCON_INIT
    /\ wlog' = Logged("OSCCON")
    /\ pc' = "l81"
    /\ UNCHANGED <<ANSELA, ANSELC, iters, ncalls, lastCalled, resetCause, rst>>

\* the line below pasted over this one: ANSELC is cleared in place of ANSELA
main_l81_paste ==
    /\ pc = "l81"
    /\ ANSELC' = ANSELC_INIT
    /\ wlog' = Logged("ANSELC")
    /\ pc' = "l82"
    /\ UNCHANGED <<OSCCON, ANSELA, iters, ncalls, lastCalled, resetCause, rst>>

\* ANSELA = 0x00;
main_l81 ==
    /\ pc = "l81"
    /\ ANSELA' = ANSELA_INIT
    /\ wlog' = Logged("ANSELA")
    /\ pc' = "l82"
    /\ UNCHANGED <<OSCCON, ANSELC, iters, ncalls, lastCalled, resetCause, rst>>

\* the statement left out
main_l82_skip ==
    /\ pc = "l82"
    /\ pc' = "l85"
    /\ UNCHANGED <<OSCCON, ANSELA, ANSELC, wlog, iters, ncalls, lastCalled, resetCause, rst>>

\* ANSELC = 0x00;
main_l82 ==
    /\ pc = "l82"
    /\ ANSELC' = ANSELC_INIT
    /\ wlog' = Logged("ANSELC")
    /\ pc' = "l85"
    /\ UNCHANGED <<OSCCON, ANSELA, iters, ncalls, lastCalled, resetCause, rst>>

\* a loop whose condition is false: main runs off its end
MainLoop_exit ==
    /\ pc = "l85"
    /\ pc' = "ret"
    /\ UNCHANGED <<OSCCON, ANSELA, ANSELC, wlog, iters, ncalls, lastCalled, resetCause, rst>>

\* while(1) { }: one iteration. The body never clears the watchdog, so with
\* the watchdog enabled an iteration may end in a time-out, which resets the
\* device: the registers take reset values and main starts again.
MainLoop ==
    /\ pc = "l85"
    /\ \E timeout \in (IF WDTE = "ON" THEN BOOLEAN ELSE {FALSE}) :
          IF timeout
          THEN /\ pc' = "l80"
               /\ OSCCON' \in ByteSamples
               /\ ANSELA' \in ByteSamples
               /\ ANSELC' \in ByteSamples
               /\ rst' = <<OSCCON', ANSELA', ANSELC'>>
               /\ resetCause' = "WDT"
               /\ iters' = 0
               /\ UNCHANGED <<wlog, ncalls, lastCalled>>
          ELSE LET s == RunCalls(MainLoopCalls, Machine) IN
               /\ pc' = "l85"
               /\ OSCCON' = s.OSCCON
               /\ ANSELA' = s.ANSELA
               /\ ANSELC' = s.ANSELC
               /\ ncalls' = s.ncalls
               /\ lastCalled' = s.lastCalled
               /\ iters' = IF iters < MaxIters THEN iters + 1 ELSE iters
               /\ UNCHANGED <<wlog, resetCause, rst>>

Next == main_l80 \/ main_l81 \/ main_l82 \/ MainLoop

Spec == Init /\ [][Next]_vars

\* the processor executes main's next statement whenever there is one
FairSpec == Init /\ [][Next]_vars /\ WF_vars(Next)

----------------------------------------------------------------------------
(* The ten functions, each called from an arbitrary state *)

\* the write log main has made when it is at statement p
LogAt(p) ==
    CASE p = "l80" -> <<>>
      [] p = "l81" -> SubSeq(InitOrder, 1, 1)
      [] p = "l82" -> SubSeq(InitOrder, 1, 2)
      [] p = "l85" -> InitOrder

\* any statement of main, any register contents
InitStubs ==
    /\ pc \in MainLabels
    /\ OSCCON \in ByteSamples
    /\ ANSELA \in ByteSamples
    /\ ANSELC \in ByteSamples
    /\ rst = <<OSCCON, ANSELA, ANSELC>>
    /\ wlog = LogAt(pc)
    /\ iters = 0
    /\ ncalls = 0
    /\ lastCalled = "none"
    /\ resetCause = "POR"

\* the caller's view once a call has returned with machine state s
Returned(s) ==
    /\ OSCCON' = s.OSCCON
    /\ ANSELA' = s.ANSELA
    /\ ANSELC' = s.ANSELC
    /\ ncalls' = s.ncalls
    /\ lastCalled' = s.lastCalled
    /\ UNCHANGED <<pc, wlog, iters, resetCause, rst>>

\* f(); as a statement, for each of the ten functions
call_func_0674 ==
    /\ ncalls < MaxCalls
    /\ Returned(Call("func_0674", Machine))

call_func_0193 ==
    /\ ncalls < MaxCalls
    /\ Returned(Call("func_0193", Machine))

call_func_0124 ==
    /\ ncalls < MaxCalls
    /\ Returned(Call("func_0124", Machine))

call_func_0380 ==
    /\ ncalls < MaxCalls
    /\ Returned(Call("func_0380", Machine))

call_func_05EE ==
    /\ ncalls < MaxCalls
    /\ Returned(Call("func_05EE", Machine))

call_func_0264 ==
    /\ ncalls < MaxCalls
    /\ Returned(Call("func_0264", Machine))

call_func_0151 ==
    /\ ncalls < MaxCalls
    /\ Returned(Call("func_0151", Machine))

call_func_01CA ==
    /\ ncalls < MaxCalls
    /\ Returned(Call("func_01CA", Machine))

call_func_0746 ==
    /\ ncalls < MaxCalls
    /\ Returned(Call("func_0746", Machine))

call_func_0118 ==
    /\ ncalls < MaxCalls
    /\ Returned(Call("func_0118", Machine))

NextStubs ==
    \/ call_func_0674
    \/ call_func_0193
    \/ call_func_0124
    \/ call_func_0380
    \/ call_func_05EE
    \/ call_func_0264
    \/ call_func_0151
    \/ call_func_01CA
    \/ call_func_0746
    \/ call_func_0118

SpecStubs == InitStubs /\ [][NextStubs]_vars

----------------------------------------------------------------------------
(* Properties *)

\* C1: whenever main is in its loop, OSCCON, ANSELA and ANSELC have each
\* been written: no state is in the loop with one of them still unwritten.
C1_InitBeforeLoop ==
    pc = "l85" => \A r \in {"OSCCON", "ANSELA", "ANSELC"} : Writes(r) >= 1

\* main has just entered the loop, all three writes behind it
C1_Witness == pc = "l85" /\ iters = 0 /\ Len(wlog) = 3

\* C2: when main is in its loop OSCCON holds 0x70 and ANSELA and ANSELC
\* hold 0x00, whatever the three registers held at reset.
C2_LoopValues ==
    pc = "l85" => (OSCCON = 112 /\ ANSELA = 0 /\ ANSELC = 0)

\* the loop reached from a reset that left 0xFF, 0x17 and 0x3F
C2_Witness ==
    pc = "l85" /\ rst = <<255, 23, 63>> /\ OSCCON = 112 /\ ANSELA = 0 /\ ANSELC = 0

\* C3, as stated: main has made exactly two register writes when it enters
\* its loop.
C3_TwoWrites == pc = "l85" => Len(wlog) = 2

\* C3, amended: main has made exactly three register writes when it enters
\* its loop (one to OSCCON, one to ANSELA, one to ANSELC), and makes none in
\* the loop.
C3_ThreeWrites == pc = "l85" => Len(wlog) = 3

\* the loop after an iteration, the log still three long
C3_Witness == pc = "l85" /\ iters = 1 /\ Len(wlog) = 3

\* C4: main never terminates: every execution enters the loop and from then
\* on is in the loop forever.
C4_LoopForever == <>[](pc = "l85")

\* the loop after as many iterations as are counted
C4_Witness == pc = "l85" /\ iters >= 3

\* C5: a call of any of the ten functions returns with the registers and
\* main's position unchanged, and with exactly one invocation recorded, its
\* own: the function called nothing. (ncalls and lastCalled record the call;
\* every other variable keeps its value.)
C5_StubsNoOp ==
    [][ /\ OSCCON' = OSCCON /\ ANSELA' = ANSELA /\ ANSELC' = ANSELC
        /\ pc' = pc /\ wlog' = wlog /\ iters' = iters
        /\ resetCause' = resetCause /\ rst' = rst
        /\ ncalls' = ncalls + 1
        /\ lastCalled' \in Stubs ]_vars

\* func_05EE called second, main mid-initialisation, registers arbitrary
C5_Witness ==
    /\ lastCalled = "func_05EE" /\ ncalls = 2
    /\ pc = "l81" /\ OSCCON = 255 /\ ANSELA = 23 /\ ANSELC = 63

\* C6: once main is in its loop every step is an iteration of that loop and
\* leaves OSCCON, ANSELA and ANSELC at 0x70, 0x00 and 0x00: nothing else
\* ever runs.
C6_LoopFrame ==
    [][ pc = "l85" =>
          /\ pc' = "l85"
          /\ OSCCON' = OSCCON /\ ANSELA' = ANSELA /\ ANSELC' = ANSELC
          /\ OSCCON' = 112 /\ ANSELA' = 0 /\ ANSELC' = 0 ]_vars

\* two iterations made, the registers as initialised
C6_Witness ==
    pc = "l85" /\ iters = 2 /\ OSCCON = 112 /\ ANSELA = 0 /\ ANSELC = 0

\* C7: no state is an error state: main is always at one of its four
\* statements and the device has never been reset by a fault.
C7_NoError == pc \in MainLabels /\ resetCause = "POR"

\* the loop, iterated, still after the power-on reset
C7_Witness == pc = "l85" /\ iters >= 1 /\ resetCause = "POR"

\* C8: main never calls one of the ten functions: the count of invocations
\* is zero in every state, through any number of loop iterations.
C8_NoStubCalls == ncalls = 0 /\ lastCalled = "none"

\* the loop iterated, no invocation recorded
C8_Witness == pc = "l85" /\ iters >= 2 /\ ncalls = 0

\* C9: the writes are made in the order OSCCON, ANSELA, ANSELC: the write
\* log is always a prefix of that order.
C9_WriteOrder ==
    /\ Len(wlog) <= Len(InitOrder)
    /\ wlog = SubSeq(InitOrder, 1, Len(wlog))

\* OSCCON and ANSELA written, ANSELC not yet
C9_Witness == pc = "l82" /\ wlog = <<"OSCCON", "ANSELA">>

\* C10: no register is written more than once, and in the loop each of the
\* three has been written exactly once.
C10_WrittenOnce ==
    /\ \A r \in {"OSCCON", "ANSELA", "ANSELC"} : Writes(r) <= 1
    /\ pc = "l85" => \A r \in {"OSCCON", "ANSELA", "ANSELC"} : Writes(r) = 1

\* the loop iterated to the count's bound, one write of each register
C10_Witness ==
    /\ pc = "l85" /\ iters = 3
    /\ Writes("OSCCON") = 1 /\ Writes("ANSELA") = 1 /\ Writes("ANSELC") = 1

====
